---------------------------- MODULE Spec2Model ----------------------------
(***************************************************************************)
(* Cross-flow filtration model (core.py): parameter validation, the        *)
(* resistance / viscosity / termination strategies, the flux and flow-rate *)
(* calculations and the time-stepped loop of run_simulation.               *)
(*                                                                         *)
(* Python floats are modelled as binary floating-point numbers m * 2^e     *)
(* with a MantBits-bit significand, round-to-nearest-even and an unbounded *)
(* exponent (the code runs with 53 bits; the model keeps the rounding and  *)
(* shortens the significand).  timedelta values are exact integers; the    *)
(* model counts them in hours.                                             *)
(***************************************************************************)
EXTENDS Integers, Sequences, FiniteSets, TLC

(***************************************************************************)
(* Bounds of the model.                                                    *)
(***************************************************************************)
MantBits == 11      \* significand bits of the modelled float format
MaxHours == 8       \* horizon: a run still looping at this elapsed time is cut off

(***************************************************************************)
(* Program constants (core.py).                                            *)
(***************************************************************************)
MWCO_MIN == 1000
MWCO_MAX == 500000
TMP_MIN == 50000
TMP_MAX == 700000
CF_MIN == 2
CF_MAX == 20
CASEIN_MOLECULAR_WEIGHT == 25107
ONE_HOUR_SECONDS == 3600

(***************************************************************************)
(* Optional values: None is the empty sequence, Some(v) the sequence <<v>>.*)
(***************************************************************************)
None == << >>
Some(v) == << v >>
IsNone(o) == Len(o) = 0
Get(o) == o[1]

(***************************************************************************)
(* Let1(x, F) is F(x) with x evaluated once, before F is applied (TLC      *)
(* re-evaluates an operator's argument at each use when it evaluates       *)
(* ENABLED); Let2 likewise for two arguments.                              *)
(***************************************************************************)
Let1(x, F(_)) == CHOOSE r \in {F(v) : v \in {x}} : TRUE
Let2(x, y, F(_, _)) == CHOOSE r \in {F(v, w) : v \in {x}, w \in {y}} : TRUE

(***************************************************************************)
(* Binary floating point: [m, e] stands for m * 2^e.  A non-zero value is  *)
(* normalised, 2^(MantBits-1) <= |m| < 2^MantBits; zero is [0, 0].         *)
(***************************************************************************)
RECURSIVE Pow2(_)
Pow2(n) == IF n <= 0 THEN 1 ELSE 2 * Pow2(n - 1)

RECURSIVE BitLen(_)
BitLen(n) == IF n = 0 THEN 0 ELSE 1 + BitLen(n \div 2)

Abs(x) == IF x < 0 THEN -x ELSE x
Sign(x) == IF x < 0 THEN -1 ELSE IF x = 0 THEN 0 ELSE 1
Min2(a, b) == IF a <= b THEN a ELSE b
Max2(a, b) == IF a >= b THEN a ELSE b

Float(m, e) == [m |-> m, e |-> e]
FZero == Float(0, 0)

\* m * 2^e, where |m| has n bits, rounded to the nearest float, ties to even.
\* sticky says that the exact value lies strictly beyond |m| * 2^e by less
\* than one unit of m.
RoundBits(m, e, sticky, n) ==
    IF m = 0 THEN FZero
    ELSE IF n <= MantBits
    THEN Float(m * Pow2(MantBits - n), e - (MantBits - n))
    ELSE LET sh   == n - MantBits
             q    == Abs(m) \div Pow2(sh)
             r    == Abs(m) % Pow2(sh)
             half == Pow2(sh - 1)
             up   == \/ r > half
                     \/ r = half /\ (sticky \/ q % 2 = 1)
         IN  IF up /\ q + 1 = Pow2(MantBits)
             THEN Float(Sign(m) * Pow2(MantBits - 1), e + sh + 1)
             ELSE Float(Sign(m) * (IF up THEN q + 1 ELSE q), e + sh)

Round(m, e, sticky) ==
    Let2(m, e, LAMBDA mv, ev :
        Let1(BitLen(Abs(mv)), LAMBDA n : RoundBits(mv, ev, sticky, n)))

FromInt(n) == Round(n, 0, FALSE)
FNeg(a) == Let1(a, LAMBDA x : Float(-x.m, x.e))
FMul(a, b) == Let2(a, b, LAMBDA x, y : Round(x.m * y.m, x.e + y.e, FALSE))

\* a / b for b # 0 (the callers raise ZeroDivisionError before dividing by zero)
FDiv(a, b) ==
    Let2(a, b, LAMBDA x, y :
        IF x.m = 0 THEN FZero
        ELSE Let1(Abs(x.m) * Pow2(MantBits + 2), LAMBDA num :
                 Round(Sign(x.m) * Sign(y.m) * (num \div Abs(y.m)),
                       x.e - y.e - (MantBits + 2),
                       num % Abs(y.m) # 0)))

FAdd(a, b) ==
    Let2(a, b, LAMBDA x, y :
        IF x.m = 0 THEN y
        ELSE IF y.m = 0 THEN x
        ELSE LET hi == IF x.e >= y.e THEN x ELSE y
                 lo == IF x.e >= y.e THEN y ELSE x
                 d  == hi.e - lo.e
             IN  IF d > MantBits + 2 THEN hi
                 ELSE Round(hi.m * Pow2(d) + lo.m, lo.e, FALSE))

FSub(a, b) == FAdd(a, FNeg(b))
\* comparisons are exact: rounding never changes the sign of a difference
FGe(a, b) == FSub(a, b).m >= 0

(***************************************************************************)
(* Results of calls: a returned value or a raised exception.               *)
(***************************************************************************)
Return(v) == [exc |-> "", val |-> Some(v)]
Raise(kind, what) == [exc |-> kind, what |-> what, val |-> None]
Raised(r) == r.exc # ""

(***************************************************************************)
(* validate_parameter                                                      *)
(***************************************************************************)
\* a variant that rejects the lower bound itself
validate_parameter_excl(param_name, value, positive, min_value, max_value) ==
    IF positive /\ value <= 0
    THEN Raise("ValueError", param_name)
    ELSE IF ~IsNone(min_value) /\ value <= Get(min_value)
    THEN Raise("ValueError", param_name)
    ELSE IF ~IsNone(max_value) /\ value > Get(max_value)
    THEN Raise("ValueError", param_name)
    ELSE Return(value)

validate_parameter(param_name, value, positive, min_value, max_value) ==
    IF positive /\ value <= 0
    THEN Raise("ValueError", param_name)
    ELSE IF ~IsNone(min_value) /\ value < Get(min_value)
    THEN Raise("ValueError", param_name)
    ELSE IF ~IsNone(max_value) /\ value > Get(max_value)
    THEN Raise("ValueError", param_name)
    ELSE Return(value)


(***************************************************************************)
(* MaxSimulationTimeTermination.check_termination; times in hours          *)
(***************************************************************************)
\* a variant that stops only after max_time has been passed
check_termination_late(max_time, current_running_time) ==
    current_running_time > max_time

check_termination(max_time, current_running_time) ==
    current_running_time >= max_time

(***************************************************************************)
(* SimplifiedResistanceModel and WaterViscosityModel                       *)
(***************************************************************************)
\* 0.13e12 = 126953125 * 2^10 and 1.51e12 = 1474609375 * 2^10, as float literals
TIME_COEFFICIENT_A == Round(126953125, 10, FALSE)
TIME_COEFFICIENT_B == Round(1474609375, 10, FALSE)
\* the literal 0.001, to 30 significant bits before rounding to the format
WATER_VISCOSITY == Round(549755814, -39, FALSE)

\* timedelta.total_seconds() of a duration given in hours
total_seconds(td) == ONE_HOUR_SECONDS * td

\* seconds ** TIME_EXPONENT (0.4) for seconds = 3600 * h, h = 0 .. 40, in units
\* of 2^-16 (the values of Python's float power, 0.0 ** 0.4 = 0.0)
PowTable ==
    << 0, 1733808, 2287773, 2690602, 3018735, 3300570, 3550270, 3776071,
       3983244, 4175399, 4355128, 4524369, 4684610, 4837024, 4982556,
       5121975, 5255922, 5384935, 5509471, 5629922, 5746626, 5859879,
       5969941, 6077040, 6181380, 6283143, 6382492, 6479574, 6574521,
       6667456, 6758486, 6847714, 6935231, 7021122, 7105465, 7188332,
       7269791, 7349903, 7428727, 7506315, 7582718 >>

PowTimeExponent(seconds) ==
    Round(PowTable[(seconds \div ONE_HOUR_SECONDS) + 1], -16, FALSE)

\* a variant that falls back to the time-free coefficient when time is None
calculate_resistance_default(time) ==
    IF ~IsNone(time)
    THEN Return(FAdd(TIME_COEFFICIENT_A,
                     FMul(TIME_COEFFICIENT_B,
                          PowTimeExponent(total_seconds(Get(time))))))
    ELSE Return(TIME_COEFFICIENT_A)

\* time: None, or Some(hours >= 0)
calculate_resistance(time) ==
    IF ~IsNone(time)
    THEN Return(FAdd(TIME_COEFFICIENT_A,
                     FMul(TIME_COEFFICIENT_B,
                          PowTimeExponent(total_seconds(Get(time))))))
    ELSE Raise("NotImplementedError", "time")

calculate_viscosity == WATER_VISCOSITY

(***************************************************************************)
(* CrossFlowFiltrationModel: a model object is a record of its fields      *)
(***************************************************************************)
\* __init__: the validations in source order; the first failure raises and no
\* object exists; membrane_area and the strategies are stored as given
Construct(volume, concentration, tmp, membrane_area, mwco, concentration_factor, termination_criteria) ==
    LET v1 == validate_parameter("Volume", volume, TRUE, None, None)
        v2 == validate_parameter("Concentration", concentration, TRUE, None, None)
        v3 == validate_parameter("TMP", tmp, FALSE, Some(TMP_MIN), Some(TMP_MAX))
        v4 == validate_parameter("MWCO", mwco, FALSE, Some(MWCO_MIN), Some(MWCO_MAX))
        v5 == validate_parameter("Concentration factor", concentration_factor,
                                 FALSE, Some(CF_MIN), Some(CF_MAX))
    IN  IF Raised(v1) THEN v1
        ELSE IF Raised(v2) THEN v2
        ELSE IF Raised(v3) THEN v3
        ELSE IF Raised(v4) THEN v4
        ELSE IF Raised(v5) THEN v5
        ELSE Return([initial_volume        |-> Get(v1.val),
                     initial_concentration |-> Get(v2.val),
                     tmp                   |-> Get(v3.val),
                     mwco                  |-> Get(v4.val),
                     concentration_factor  |-> Get(v5.val),
                     membrane_area         |-> membrane_area,
                     termination_criteria  |-> termination_criteria])

\* calculate_flux: a failure of a sub-model is logged and re-raised
calculate_flux(obj, time) ==
    Let1(calculate_resistance(time), LAMBDA resistance :
        IF Raised(resistance) THEN resistance
        ELSE Let1(FMul(calculate_viscosity, Get(resistance.val)), LAMBDA denom :
                 IF denom.m = 0
                 THEN Raise("ZeroDivisionError", "flux")
                 ELSE Return(FDiv(FromInt(obj.tmp), denom))))

calculate_permeate_flow_rate(obj, time) ==
    Let1(calculate_flux(obj, time), LAMBDA flux :
        IF Raised(flux) THEN flux
        ELSE Return(FMul(Get(flux.val), FromInt(obj.membrane_area))))

\* current_concentration(current_volume) = initial_volume / current_volume
concentration_of(obj, current_volume) ==
    Let1(current_volume, LAMBDA volume :
        IF volume.m = 0
        THEN Raise("ZeroDivisionError", "concentration")
        ELSE Return(FDiv(FromInt(obj.initial_volume), volume)))

(***************************************************************************)
(* run_simulation, one loop iteration at a time                            *)
(***************************************************************************)
\* the three break conditions of the loop, in the order the code tests them
\* a variant with the comparison turned round
MwcoGuard_reversed(obj) == CASEIN_MOLECULAR_WEIGHT < obj.mwco

MwcoGuard(obj) == CASEIN_MOLECULAR_WEIGHT > obj.mwco

TargetReached(obj, concentration) ==
    FGe(concentration, FromInt(obj.concentration_factor))

StrategyStops(obj, running_time) ==
    IF IsNone(obj.termination_criteria) THEN FALSE
    ELSE check_termination(Get(obj.termination_criteria), running_time)

LoopBreaks(obj, concentration, running_time) ==
    IF MwcoGuard(obj) THEN TRUE
    ELSE IF TargetReached(obj, concentration) THEN TRUE
    ELSE StrategyStops(obj, running_time)

\* the strategy is consulted only when the first two tests fail
StrategyConsulted(obj, concentration) ==
    IF MwcoGuard(obj) \/ TargetReached(obj, concentration) \/ IsNone(obj.termination_criteria)
    THEN {}
    ELSE {"termination"}

\* delta_permeate_volume = permeate_flow_rate * time_step.total_seconds() / ONE_HOUR.total_seconds()
delta_permeate_volume(permeate_flow_rate, step) ==
    FDiv(FMul(permeate_flow_rate, FromInt(total_seconds(step))),
         FromInt(ONE_HOUR_SECONDS))

\* current_permeate_volume += delta_permeate_volume
permeate_after(permeate_volume, delta) == FAdd(permeate_volume, delta)

\* a variant that adds the permeate to the hold-up volume
hold_up_after_added(hold_up_volume, delta) == FAdd(hold_up_volume, delta)

\* current_hold_up_volume -= delta_permeate_volume
hold_up_after(hold_up_volume, delta) == FSub(hold_up_volume, delta)

CompletedSimulation(permeate_volume, retentate_volume, concentration, time) ==
    [final_permeate_volume  |-> permeate_volume,
     final_retentate_volume |-> retentate_volume,
     final_concentration    |-> concentration,
     time                   |-> time]

(***************************************************************************)
(* Inputs                                                                  *)
(***************************************************************************)
Volumes == {0, 1, 2}                                  \* L
Concentrations == {0, 10}                             \* g/L
TMPs == {49999, 100000, 700000, 700001}               \* Pa
Areas == {-5, 0, 5, 260, 1301, 5000}                  \* m2
MWCOs == {999, 10000, 25107, 40000, 500001}           \* Da
ConcentrationFactors == {1, 2, 20, 21}
MaxTimes == {-1, 0, 3, 5}                             \* hours
Strategies == {None} \cup {Some(t) : t \in MaxTimes}
TimeSteps == {0, 1, 2}                                \* hours
CallTimes == {None} \cup {Some(t) : t \in 0 .. 3}
ValidateValues == -1 .. 4
ValidateMins == {None, Some(1), Some(2)}
ValidateMaxs == {None, Some(2), Some(3)}

(***************************************************************************)
(* State                                                                   *)
(***************************************************************************)
VARIABLES
    pc,                       \* "init", "rejected", "ready", "returned", and in a
                              \* run "loop" (at the loop's tests), "body" (past
                              \* them), "done", "error", "cutoff"
    args,                     \* the arguments given to the constructor, if called
    self,                     \* the model object, None while there is none
    time_step,                \* run_simulation's argument, hours
    current_hold_up_volume,
    current_concentration,
    current_permeate_volume,
    current_running_time,     \* hours
    result,                   \* the CompletedSimulation returned, if any
    error,                    \* the exception that ended construction or the run
    consulted,                \* the strategy models run_simulation has called
    call                      \* a direct call of a function and what it gave

vars == << pc, args, self, time_step, current_hold_up_volume, current_concentration,
           current_permeate_volume, current_running_time, result, error,
           consulted, call >>

locals == << time_step, current_hold_up_volume, current_concentration,
             current_permeate_volume, current_running_time, result, consulted >>

NoCall == [fn |-> "", args |-> << >>, ret |-> Return(0)]

Init ==
    /\ pc = "init"
    /\ args = None
    /\ self = None
    /\ time_step = 0
    /\ current_hold_up_volume = FZero
    /\ current_concentration = FZero
    /\ current_permeate_volume = FZero
    /\ current_running_time = 0
    /\ result = None
    /\ error = None
    /\ consulted = {}
    /\ call = NoCall

\* CrossFlowFiltrationModel(...)
NewModel ==
    /\ pc = "init"
    /\ \E volume \in Volumes, concentration \in Concentrations, tmp \in TMPs,
          membrane_area \in Areas, mwco \in MWCOs,
          concentration_factor \in ConcentrationFactors,
          termination_criteria \in Strategies :
         LET made == Construct(volume, concentration, tmp, membrane_area, mwco,
                               concentration_factor, termination_criteria)
         IN  /\ args' = Some([volume |-> volume, concentration |-> concentration,
                              tmp |-> tmp, membrane_area |-> membrane_area,
                              mwco |-> mwco,
                              concentration_factor |-> concentration_factor,
                              termination_criteria |-> termination_criteria])
             /\ IF Raised(made)
                THEN /\ pc' = "rejected"
                     /\ self' = None
                     /\ error' = Some(made)
                ELSE /\ pc' = "ready"
                     /\ self' = made.val
                     /\ error' = None
    /\ UNCHANGED << locals, call >>

\* validate_parameter('p', value, positive, min_value, max_value), called directly
CallValidate ==
    /\ pc = "init"
    /\ \E value \in ValidateValues, positive \in BOOLEAN,
          min_value \in ValidateMins, max_value \in ValidateMaxs :
         call' = [fn   |-> "validate_parameter",
                  args |-> << value, positive, min_value, max_value >>,
                  ret  |-> validate_parameter("p", value, positive, min_value, max_value)]
    /\ pc' = "returned"
    /\ UNCHANGED << args, self, locals, error >>

\* SimplifiedResistanceModel().calculate_resistance(time), called directly
CallResistance ==
    /\ pc = "init"
    /\ \E time \in CallTimes :
         call' = [fn   |-> "calculate_resistance",
                  args |-> << time >>,
                  ret  |-> calculate_resistance(time)]
    /\ pc' = "returned"
    /\ UNCHANGED << args, self, locals, error >>

\* model.calculate_permeate_flow_rate(time), called directly
CallFlowRate ==
    /\ pc = "ready"
    /\ \E time \in CallTimes :
         call' = [fn   |-> "calculate_permeate_flow_rate",
                  args |-> << time >>,
                  ret  |-> calculate_permeate_flow_rate(Get(self), time)]
    /\ pc' = "returned"
    /\ UNCHANGED << args, self, locals, error >>

\* run_simulation(time_step): the locals before the loop
RunSimulation ==
    /\ pc = "ready"
    /\ pc' = "loop"
    /\ \E step \in TimeSteps : time_step' = step
    /\ current_hold_up_volume' = FromInt(Get(self).initial_volume)
    /\ current_concentration' = FZero
    /\ current_permeate_volume' = FZero
    /\ current_running_time' = 0
    /\ UNCHANGED << args, self, result, error, consulted, call >>

\* an iteration that breaks, and the return after the loop
LoopBreak ==
    /\ pc = "loop"
    /\ LoopBreaks(Get(self), current_concentration, current_running_time)
    /\ pc' = "done"
    /\ consulted' = consulted \cup StrategyConsulted(Get(self), current_concentration)
    /\ result' = Some(CompletedSimulation(current_permeate_volume, current_hold_up_volume,
                                          current_concentration, current_running_time))
    /\ UNCHANGED << args, self, time_step, current_hold_up_volume, current_concentration,
                    current_permeate_volume, current_running_time, error, call >>

\* the tests of an iteration that does not break
LoopContinue ==
    /\ pc = "loop"
    /\ ~LoopBreaks(Get(self), current_concentration, current_running_time)
    /\ current_running_time < MaxHours
    /\ pc' = "body"
    /\ consulted' = consulted \cup StrategyConsulted(Get(self), current_concentration)
    /\ UNCHANGED << args, self, time_step, current_hold_up_volume, current_concentration,
                    current_permeate_volume, current_running_time, result, error, call >>

\* the body of the loop: the volume, time and concentration updates
LoopStep ==
    /\ pc = "body"
    /\ consulted' = consulted \cup {"resistance", "viscosity"}
    /\ \E permeate_flow_rate \in
              {calculate_permeate_flow_rate(Get(self), Some(current_running_time))} :
         IF Raised(permeate_flow_rate)
         THEN /\ pc' = "error"
              /\ error' = Some(permeate_flow_rate)
              /\ UNCHANGED << current_permeate_volume, current_hold_up_volume,
                              current_running_time, current_concentration >>
         ELSE \E delta \in {delta_permeate_volume(Get(permeate_flow_rate.val), time_step)} :
              \E hold_up \in {hold_up_after(current_hold_up_volume, delta)} :
              \E concentration \in {concentration_of(Get(self), hold_up)} :
                /\ current_permeate_volume' = permeate_after(current_permeate_volume, delta)
                /\ current_hold_up_volume' = hold_up
                /\ current_running_time' = current_running_time + time_step
                /\ IF Raised(concentration)
                   THEN /\ pc' = "error"
                        /\ error' = Some(concentration)
                        /\ UNCHANGED current_concentration
                   ELSE /\ pc' = "loop"
                        /\ error' = None
                        /\ current_concentration' = Get(concentration.val)
    /\ UNCHANGED << args, self, time_step, result, call >>

\* the horizon of the model: the run is followed no further
Cutoff ==
    /\ pc = "loop"
    /\ ~LoopBreaks(Get(self), current_concentration, current_running_time)
    /\ current_running_time >= MaxHours
    /\ pc' = "cutoff"
    /\ UNCHANGED << args, self, locals, error, call >>

Next ==
    \/ NewModel
    \/ CallValidate
    \/ CallResistance
    \/ CallFlowRate
    \/ RunSimulation
    \/ LoopBreak
    \/ LoopContinue
    \/ LoopStep
    \/ Cutoff

Spec == Init /\ [][Next]_vars

\* the loop of run_simulation runs on without waiting for anything
FairSpec == Spec /\ WF_vars(LoopBreak \/ LoopContinue \/ LoopStep \/ Cutoff)

(***************************************************************************)
(* Shorthands for the properties                                           *)
(***************************************************************************)
Running == pc \in {"loop", "body", "done", "error", "cutoff"}

\* the number of volume updates executed so far in a run with a positive step
StepsDone == IF time_step > 0 THEN current_running_time \div time_step ELSE 0

\* ceil(a / b) for b > 0
CeilDiv(a, b) == -((-a) \div b)

\* x as an exact integer in units of 2^E, for E <= x.e
Units(x, E) == x.m * Pow2(x.e - E)

BalanceExp ==
    Min2(current_permeate_volume.e,
         Min2(current_hold_up_volume.e, FromInt(Get(self).initial_volume).e))

\* permeate + hold-up - initial volume, exactly, in units of 2^BalanceExp
Imbalance ==
    Units(current_permeate_volume, BalanceExp)
      + Units(current_hold_up_volume, BalanceExp)
      - Units(FromInt(Get(self).initial_volume), BalanceExp)

BalanceScale ==
    Max2(Abs(Units(current_permeate_volume, BalanceExp)),
         Max2(Abs(Units(current_hold_up_volume, BalanceExp)),
              Units(FromInt(Get(self).initial_volume), BalanceExp)))

(***************************************************************************)
(* C7: validate_parameter raises ValueError exactly when positive is asked *)
(* and value <= 0, or a given min exceeds value, or value exceeds a given  *)
(* max; otherwise it returns the value it was given.                       *)
(***************************************************************************)
C7_ValidateContract ==
    call.fn = "validate_parameter" =>
        LET value     == call.args[1]
            positive  == call.args[2]
            min_value == call.args[3]
            max_value == call.args[4]
            fails == \/ positive /\ value <= 0
                     \/ ~IsNone(min_value) /\ value < Get(min_value)
                     \/ ~IsNone(max_value) /\ value > Get(max_value)
        IN  IF fails
            THEN call.ret.exc = "ValueError" /\ IsNone(call.ret.val)
            ELSE call.ret.exc = "" /\ call.ret.val = Some(value)

\* value = min = max is accepted and handed back unchanged
C7_Witness ==
    /\ call.fn = "validate_parameter"
    /\ call.args = << 2, TRUE, Some(2), Some(2) >>
    /\ call.ret.val = Some(2)

C4_MwcoGuard ==
    (Running /\ Get(self).mwco < CASEIN_MOLECULAR_WEIGHT)
    => /\ pc \in {"loop", "done"}
       /\ consulted = {}
       /\ current_running_time = 0
       /\ current_permeate_volume = FZero
       /\ current_concentration = FZero
       /\ current_hold_up_volume = FromInt(Get(self).initial_volume)
       /\ pc = "done" =>
            result = Some([final_permeate_volume  |-> FZero,
                           final_retentate_volume |-> FromInt(Get(self).initial_volume),
                           final_concentration    |-> FZero,
                           time                   |-> 0])

C4_Witness ==
    /\ pc = "done"
    /\ Get(self).mwco = 10000
    /\ Get(self).membrane_area = 5000
    /\ Get(result).time = 0

(***************************************************************************)
(* C5: construction fails, and yields no object, whenever one field is     *)
(* out of its range: volume <= 0, concentration <= 0, membrane area <= 0,  *)
(* TMP, MWCO or the target concentration factor outside their intervals.   *)
(***************************************************************************)
C5_ConstructionValidatesAll ==
    (~IsNone(args) /\ LET a == Get(args)
                      IN  \/ a.volume <= 0
                          \/ a.concentration <= 0
                          \/ a.membrane_area <= 0
                          \/ a.tmp < TMP_MIN \/ a.tmp > TMP_MAX
                          \/ a.mwco < MWCO_MIN \/ a.mwco > MWCO_MAX
                          \/ a.concentration_factor < CF_MIN
                          \/ a.concentration_factor > CF_MAX)
    => /\ pc = "rejected"
       /\ IsNone(self)
       /\ Get(error).exc = "ValueError"

(***************************************************************************)
(* C6: a hold-up volume that is zero or negative after a volume update     *)
(* ends the run with an ArithmeticDegenerate error; the run neither goes   *)
(* on nor returns with such a volume.                                      *)
(***************************************************************************)
C6_DegenerateSurfaced ==
    (Running /\ current_hold_up_volume.m <= 0)
    => /\ pc = "error"
       /\ Get(error).exc = "ArithmeticDegenerate"

(***************************************************************************)
(* C8: with MWCO >= the reference weight, a max-time strategy with         *)
(* max_time > 0 and a positive step, the run returns a record with         *)
(* permeate, retentate, concentration and time all > 0, and concentration  *)
(* >= target or time >= max_time.                                          *)
(***************************************************************************)
C8_RunResult ==
    (/\ pc \in {"done", "error"}
     /\ Get(self).mwco >= CASEIN_MOLECULAR_WEIGHT
     /\ ~IsNone(Get(self).termination_criteria)
     /\ Get(Get(self).termination_criteria) > 0
     /\ time_step > 0)
    => /\ pc = "done"
       /\ LET r == Get(result)
          IN  /\ r.final_permeate_volume.m > 0
              /\ r.final_retentate_volume.m > 0
              /\ r.final_concentration.m > 0
              /\ r.time > 0
              /\ \/ FGe(r.final_concentration,
                        FromInt(Get(self).concentration_factor))
                 \/ r.time >= Get(Get(self).termination_criteria)

(***************************************************************************)
(* C3: from one step to the next, elapsed time and permeate volume never   *)
(* decrease, and the hold-up volume never increases when the flux is > 0.  *)
(***************************************************************************)
C3_StepMonotone ==
    (pc = "body" /\ pc' \in {"loop", "error"})
    => /\ current_running_time' >= current_running_time
       /\ FGe(current_permeate_volume', current_permeate_volume)
       /\ Get(calculate_flux(Get(self), Some(current_running_time)).val).m > 0
            => FGe(current_hold_up_volume, current_hold_up_volume')

C3_Monotonicity == [][C3_StepMonotone]_vars

(***************************************************************************)
(* C2: permeate volume + hold-up volume = initial volume in every state of *)
(* a run and in the returned record.  The claim as it stands is stated for *)
(* the runs of a model with a positive membrane area.                      *)
(***************************************************************************)
C2_ExactBalance ==
    (Running /\ Get(self).membrane_area > 0)
            => /\ Imbalance = 0
               /\ pc = "done" =>
                    /\ Get(result).final_permeate_volume = current_permeate_volume
                    /\ Get(result).final_retentate_volume = current_hold_up_volume

\* C2 as amended: the sum stays within the rounding of the updates, one unit
\* in the last place of the largest of the three volumes per step executed
C2_BalanceWithinRounding ==
    Running => /\ Abs(Imbalance) * Pow2(MantBits - 1) <= StepsDone * BalanceScale
               /\ pc = "done" =>
                    /\ Get(result).final_permeate_volume = current_permeate_volume
                    /\ Get(result).final_retentate_volume = current_hold_up_volume

\* a returned record whose volumes do not add up exactly
C2_Witness ==
    /\ pc = "done"
    /\ Imbalance # 0
    /\ Get(result).final_retentate_volume.m > 0

(***************************************************************************)
(* C10: with a max-time strategy and a positive step no volume update      *)
(* starts at an elapsed time >= max_time; the run does at most             *)
(* ceil(max_time / step) steps and its time stays below max_time + step.   *)
(***************************************************************************)
HasMaxTime == Running /\ ~IsNone(Get(self).termination_criteria) /\ time_step > 0
MaxTime == Get(Get(self).termination_criteria)

C10_NoLateStep ==
    (HasMaxTime /\ pc = "body" /\ pc' \in {"loop", "error"})
    => current_running_time < MaxTime

\* the two bounds as the claim states them, for a run that passes the MWCO
\* guard with a positive membrane area
C10_OriginalBound ==
    (HasMaxTime /\ Get(self).membrane_area > 0
                /\ Get(self).mwco >= CASEIN_MOLECULAR_WEIGHT)
    => /\ StepsDone <= CeilDiv(MaxTime, time_step)
       /\ current_running_time < MaxTime + time_step

\* C10 as amended: a max_time below zero counts as zero in the two bounds
C10_Bound ==
    HasMaxTime => /\ StepsDone <= Max2(0, CeilDiv(MaxTime, time_step))
                  /\ current_running_time < Max2(0, MaxTime) + time_step
                  /\ pc = "done" => Get(result).time = current_running_time

C10_MaxTimeBound == []C10_Bound /\ [][C10_NoLateStep]_vars

\* a run stopped by the strategy after the last step it allows
C10_Witness ==
    /\ pc = "done"
    /\ HasMaxTime
    /\ MaxTime = 5
    /\ time_step = 2
    /\ Get(result).time = 6
    /\ ~TargetReached(Get(self), current_concentration)

(***************************************************************************)
(* C1: every run reaches one of the loop's break conditions and returns    *)
(* (a run that outlasts the horizon of the model counts as undecided).     *)
(***************************************************************************)
C1_RunTerminates == (pc = "loop") ~> (pc = "done" \/ pc = "cutoff")

=============================================================================
